---- MODULE Spec2Model ----
(***************************************************************************)
(* Record handlers of skygear-server (pkg/server/handler/record.go):       *)
(* record:save, record:fetch, record:delete and record:query, with the     *)
(* atomic mutation coordinator atomicModifyFunc.  One request is handled   *)
(* by one worker; a handler runs to completion and leaves its response in  *)
(* `last`, which the router serialises and discards before the next        *)
(* request.  The push notification router (push/push.go) is modelled next  *)
(* to them, in `push`.                                                     *)
(***************************************************************************)
EXTENDS Integers, Sequences, FiniteSets, TLC

\* Largest number of items in one save or delete batch.
MaxBatch == 2
\* Largest number of field references in one query predicate.
MaxPred == 2
\* Largest number of Route registrations made on one RouteSender.
MaxRoutes == 3

\* Keys of the records of type "note"; the RecordID of key k is note/k.
RecordKeys == {"a", "b"}
\* Types a value of the field `age` can be inferred to have.
FieldTypes == {"integer", "string"}
\* Marks a key the store holds no record for, and an undeclared field.
Absent == "absent"
\* The keys in the order a store scan returns their records.
KeyOrder == <<"a", "b">>
\* Fields of note a query predicate can refer to.
QueryFields == {"age", "secret"}
\* Push notification services a sender is registered for.
Services == {"apns", "gcm"}
\* The Type of a device: a service, or one no sender is ever registered for.
DeviceTypes == Services \cup {"baidu"}
\* The Sender values that are registered.
Senders == {"s1", "s2"}
\* The record the reference field `ref` of each note points to: note/a refers
\* to note/b, note/b to a record that was never stored.
RefTarget == [k \in RecordKeys |-> IF k = "a" THEN "b" ELSE "z"]

VARIABLES
    records,         \* the store: key -> the type of the stored record's age, or Absent
    schema,          \* the declared type of note.age, or Absent
    fieldACL,        \* field -> whether the requesting user may read it
    transactional,   \* payload.Database implements skydb.Transactional
    readOnly,        \* payload.Database.IsReadOnly()
    hasEventSender,  \* h.EventSender != nil
    last,            \* the request being answered: request, response, calls made
    push             \* the RouteSender: its senders map, the registrations made, the last Send

vars == <<records, schema, fieldACL, transactional, readOnly, hasEventSender, last, push>>

----------------------------------------------------------------------------
\* skyerr.Error values: the error name, the record ids its info enumerates,
\* the number of nested de-serialization errors, and the wrapped cause.
NoErr == [name |-> "", ids |-> {}, nErrs |-> 0, inner |-> ""]

NewError(name) == [name |-> name, ids |-> {}, nErrs |-> 0, inner |-> ""]

\* router.Response before the handler writes to it.
EmptyResponse == [hasResult |-> FALSE, Result |-> <<>>, Err |-> NoErr]

\* recordutil.RecordModifyResponse{ErrMap: map[skydb.RecordID]skyerr.Error{}}
EmptyErrMap == [k \in {} |-> ""]

EmptyModifyResponse == [ErrMap |-> EmptyErrMap, SavedRecords |-> <<>>]

ErrMapPut(m, k, e) == [x \in (DOMAIN m) \cup {k} |-> IF x = k THEN e ELSE m[x]]

\* newSerializedError(id, err)
newSerializedError(id, err) == [type |-> "error", id |-> id, rec |-> 0, err |-> err]

----------------------------------------------------------------------------
\* An incoming record map: de-serializable (with its key and the type of its
\* age value) or malformed.
Malformed == [ok |-> FALSE, key |-> "", age |-> ""]

RawMaps == {Malformed} \cup [ok : {TRUE}, key : RecordKeys, age : FieldTypes]

Batches(S) == UNION {[1..n -> S] : n \in 0..MaxBatch}

\* A raw id of an `ids` list: "note/k", or a string with no '/' in it.
NoSlash == [slash |-> FALSE, key |-> ""]

RawIDs == {NoSlash} \cup [slash : {TRUE}, key : RecordKeys]

\* recordSavePayload.Validate: the loop over RawMaps.  Records holds the
\* de-serialized records; a record is identified by its position in Records
\* (the handler passes *skydb.Record pointers).
RECURSIVE ValidateFrom(_, _, _)
ValidateFrom(raws, i, p) ==
    IF i > Len(raws) THEN p
    ELSE IF ~raws[i].ok
         THEN ValidateFrom(raws, i + 1,
                [p EXCEPT !.Clean = FALSE,
                          !.Errs = Append(@, "InvalidArgument"),
                          !.IncomingItems = Append(@, [isErr |-> TRUE, key |-> ""])])
         ELSE ValidateFrom(raws, i + 1,
                [p EXCEPT !.IncomingItems = Append(@, [isErr |-> FALSE, key |-> raws[i].key]),
                          !.Records = Append(@, [key |-> raws[i].key, age |-> raws[i].age])])

Validate(raws) ==
    ValidateFrom(raws, 1,
        [Clean |-> TRUE, Errs |-> <<>>, IncomingItems |-> <<>>, Records |-> <<>>])

----------------------------------------------------------------------------
(* The record store and the recordutil package, as the handlers use them.  *)
(* A database value is [records, schema].                                   *)

\* Outcomes of a transaction attempt that the store decides.
TxOutcomes == {"ok", "beginFail", "commitFail"}

\* recordutil.ExtendRecordSchema(ctx, db, records): derives the schema of the
\* incoming records and extends the stored one additively.  A conflict among
\* the records or with the declared type is an IncompatibleSchema error and
\* leaves the schema as declared; extFail is a storage failure of the
\* extension.  Returns the database, whether the schema changed, the error.
ExtendRecordSchema(db, recs, extFail) ==
    LET types == {recs[i].age : i \in DOMAIN recs}
        conflict == \/ Cardinality(types) > 1
                    \/ /\ db.schema # Absent
                       /\ types # {}
                       /\ types # {db.schema}
    IN  IF conflict
        THEN [db |-> db, updated |-> FALSE, err |-> "IncompatibleSchema"]
        ELSE IF types = {} \/ db.schema # Absent
        THEN [db |-> db, updated |-> FALSE, err |-> ""]
        ELSE IF extFail
        THEN [db |-> db, updated |-> FALSE, err |-> "storage"]
        ELSE [db |-> [db EXCEPT !.schema = CHOOSE t \in types : TRUE],
              updated |-> TRUE, err |-> ""]

\* recordutil.RecordSaveHandler(req, resp): saves the records one by one in
\* input order.  A record that fails (fails holds its position in recs) is
\* entered in ErrMap under its id and is absent from SavedRecords; the others
\* are written to the store.  An atomic request with a non-empty ErrMap
\* returns an error.
RECURSIVE SaveFrom(_, _, _, _, _)
SaveFrom(db, recs, k, fails, resp) ==
    IF k > Len(recs) THEN [db |-> db, resp |-> resp]
    ELSE IF k \in fails
         THEN SaveFrom(db, recs, k + 1, fails,
                [resp EXCEPT !.ErrMap = ErrMapPut(@, recs[k].key, "PermissionDenied")])
         ELSE SaveFrom([db EXCEPT !.records[recs[k].key] = recs[k].age],
                recs, k + 1, fails,
                [resp EXCEPT !.SavedRecords = Append(@, k)])

\* The return value of a modify function whose loop ended as r.
ModifyReturn(atomic, r) ==
    [db |-> r.db, resp |-> r.resp,
     err |-> IF atomic /\ DOMAIN r.resp.ErrMap # {}
             THEN "atomic operation failed" ELSE ""]

recordutilRecordSaveHandler(db, recs, atomic, fails) ==
    ModifyReturn(atomic, SaveFrom(db, recs, 1, fails, EmptyModifyResponse))

\* recordutil.RecordDeleteHandler(req, resp): deletes the ids one by one in
\* input order.  An id the store holds no record for is entered in ErrMap as
\* ResourceNotFound, an id whose deletion fails as PermissionDenied.
RECURSIVE DeleteFrom(_, _, _, _, _)
DeleteFrom(db, ids, k, fails, resp) ==
    IF k > Len(ids) THEN [db |-> db, resp |-> resp]
    ELSE IF db.records[ids[k]] = Absent
         THEN DeleteFrom(db, ids, k + 1, fails,
                [resp EXCEPT !.ErrMap = ErrMapPut(@, ids[k], "ResourceNotFound")])
         ELSE IF k \in fails
         THEN DeleteFrom(db, ids, k + 1, fails,
                [resp EXCEPT !.ErrMap = ErrMapPut(@, ids[k], "PermissionDenied")])
         ELSE DeleteFrom([db EXCEPT !.records[ids[k]] = Absent],
                ids, k + 1, fails, resp)

recordutilRecordDeleteHandler(db, ids, atomic, fails) ==
    ModifyReturn(atomic, DeleteFrom(db, ids, 1, fails, EmptyModifyResponse))

\* The recordModifyFunc a handler passes to the coordinator (line 805):
\* kind names recordutil.RecordSaveHandler or recordutil.RecordDeleteHandler,
\* items are req.RecordsToSave or req.RecordIDsToDelete.
mFunc(kind, db, items, atomic, fails) ==
    IF kind = "save"
    THEN recordutilRecordSaveHandler(db, items, atomic, fails)
    ELSE recordutilRecordDeleteHandler(db, items, atomic, fails)

\* The end of a transaction in which do returned r: rollback when r carries
\* an error, commit otherwise.  A rollback or a failed commit leaves the
\* store as it was at begin.
TxEnd(db, tx, r) ==
    IF r.err # ""
    THEN [db |-> db, resp |-> r.resp, txErr |-> r.err,
          log |-> <<"Begin", "mFunc", "Rollback">>]
    ELSE IF tx = "commitFail"
    THEN [db |-> db, resp |-> r.resp, txErr |-> "commit failed",
          log |-> <<"Begin", "mFunc", "Commit">>]
    ELSE [db |-> r.db, resp |-> r.resp, txErr |-> "",
          log |-> <<"Begin", "mFunc", "Commit">>]

\* skydb.WithTransaction(txDB, do): begins a transaction, runs do inside it,
\* rolls back when do returns an error and commits otherwise.  A failed
\* begin runs nothing.
WithTransaction(db, kind, items, fails, tx) ==
    IF tx = "beginFail"
    THEN [db |-> db, resp |-> EmptyModifyResponse, txErr |-> "begin failed",
          log |-> <<"Begin">>]
    ELSE TxEnd(db, tx, mFunc(kind, db, items, TRUE, fails))

----------------------------------------------------------------------------
(* The atomic mutation coordinator.                                         *)

\* The closure with no error made of ErrMap or of the transaction's error.
AtomicReturn_NoError(t) ==
    [db |-> t.db, resp |-> t.resp, txErr |-> t.txErr, err |-> NoErr, log |-> t.log]

\* The error of the closure with the two branches in the other order: the
\* error of the transaction first, then ErrMap.
AtomicReturn_TxErrFirst(t) ==
    [db |-> t.db, resp |-> t.resp, txErr |-> t.txErr,
     err |-> IF t.txErr # ""
             THEN [name |-> "AtomicOperationFailure",
                   ids |-> {}, nErrs |-> 0, inner |-> t.txErr]
             ELSE IF DOMAIN t.resp.ErrMap # {}
             THEN [name |-> "AtomicOperationFailure",
                   ids |-> DOMAIN t.resp.ErrMap, nErrs |-> 0, inner |-> ""]
             ELSE NoErr,
     log |-> t.log]

\* The error the closure returns after the transaction attempt t
\* (lines 819-834): ErrMap first, then txErr.
AtomicReturn(t) ==
    [db |-> t.db, resp |-> t.resp, txErr |-> t.txErr,
     err |-> IF DOMAIN t.resp.ErrMap # {}
             THEN [name |-> "AtomicOperationFailure",
                   ids |-> DOMAIN t.resp.ErrMap, nErrs |-> 0, inner |-> ""]
             ELSE IF t.txErr # ""
             THEN [name |-> "AtomicOperationFailure",
                   ids |-> {}, nErrs |-> 0, inner |-> t.txErr]
             ELSE NoErr,
     log |-> t.log]

\* mFunc run by the closure directly, with no transaction around it: what
\* it wrote stays written.
RunUnwrapped(r) ==
    [db |-> r.db, resp |-> r.resp, txErr |-> r.err, log |-> <<"mFunc">>]

\* atomicModifyFunc's closure with skydb.WithTransaction left out.
atomicModifyFunc_NoTransaction(db, isTx, kind, items, fails, tx) ==
    IF ~isTx
    THEN [db |-> db, resp |-> EmptyModifyResponse, txErr |-> "",
          err |-> NewError("NotSupported"), log |-> <<>>]
    ELSE AtomicReturn(RunUnwrapped(mFunc(kind, db, items, TRUE, fails)))

\* The closure atomicModifyFunc returns, applied to (req, resp): isTx is the
\* req.Db.(skydb.Transactional) assertion.
atomicModifyFunc(db, isTx, kind, items, fails, tx) ==
    IF ~isTx
    THEN [db |-> db, resp |-> EmptyModifyResponse, txErr |-> "",
          err |-> NewError("NotSupported"), log |-> <<>>]
    ELSE AtomicReturn(WithTransaction(db, kind, items, fails, tx))

\* The return of mFunc as a skyerr.Error.
PlainReturn(r) ==
    [db |-> r.db, resp |-> r.resp, txErr |-> "",
     err |-> IF r.err # "" THEN NewError("UnexpectedError") ELSE NoErr,
     log |-> <<"mFunc">>]

\* The recordModifyFunc of a request that is not atomic: mFunc itself.
plainModifyFunc(db, kind, items, fails) ==
    PlainReturn(mFunc(kind, db, items, FALSE, fails))

----------------------------------------------------------------------------
(* RecordSaveHandler.Handle, as the sequence of its steps over a frame: the *)
(* handler's locals, the database it works on and the calls it has made.    *)

\* The frame at entry.  raws and atomic are the payload, which mapstructure
\* cannot decode when decodeFail; fails, tx, extFail, filterFail and sendFail
\* are what the store and the collaborators answer.
SaveFrame(db, isTx, ro, sender, atomic, raws, decodeFail, fails, tx, extFail, filterFail, sendFail) ==
    [db |-> db, pre |-> db, isTx |-> isTx, ro |-> ro, sender |-> sender,
     atomic |-> atomic, raws |-> raws, decodeFail |-> decodeFail,
     fails |-> fails, tx |-> tx, extFail |-> extFail, filterFail |-> filterFail,
     sendFail |-> sendFail,
     p |-> Validate(<<>>), saveFunc |-> "", resp |-> EmptyModifyResponse, txErr |-> "",
     schemaUpdated |-> FALSE, response |-> EmptyResponse, log |-> <<>>,
     panicked |-> FALSE, done |-> FALSE]

\* response.Err = err; return
Return(f, err) == [f EXCEPT !.response.Err = err, !.done = TRUE]

\* recordSavePayload.Validate
SaveValidate(f) ==
    IF Len(f.raws) = 0
    THEN Return(f, NewError("InvalidArgument"))
    ELSE [f EXCEPT !.p = Validate(f.raws)]

\* p.Decode(payload.Data)
SaveDecode(f) ==
    IF f.decodeFail THEN Return(f, NewError("BadRequest")) ELSE SaveValidate(f)

\* The save handler with no read-only check.
SaveCheckReadOnly_Skip(f) == f

\* payload.Database.IsReadOnly()
SaveCheckReadOnly(f) ==
    IF f.done THEN f
    ELSE IF f.ro THEN Return(f, NewError("NotSupported"))
    ELSE f

\* recordutil.NewRecordResultFilter(...)
SaveNewResultFilter(f) ==
    IF f.done THEN f
    ELSE IF f.filterFail
    THEN Return([f EXCEPT !.log = Append(@, "NewRecordResultFilter")],
                NewError("UnexpectedError"))
    ELSE [f EXCEPT !.log = Append(@, "NewRecordResultFilter")]

\* The choice of saveFunc with the Clean check of an atomic request left out.
SaveSelectFunc_NoCleanCheck(f) ==
    IF f.done THEN f
    ELSE [f EXCEPT !.saveFunc = IF f.atomic THEN "atomic" ELSE "plain"]

\* var saveFunc recordModifyFunc; if p.Atomic { ... } else { ... }
SaveSelectFunc(f) ==
    IF f.done THEN f
    ELSE IF f.atomic
    THEN IF ~f.p.Clean
         THEN Return(f, [name |-> "InvalidArgument", ids |-> {},
                         nErrs |-> Len(f.p.Errs), inner |-> ""])
         ELSE [f EXCEPT !.saveFunc = "atomic"]
    ELSE [f EXCEPT !.saveFunc = "plain"]

\* The frame after ExtendRecordSchema answered e.
SchemaExtended(f, e) ==
    [f EXCEPT !.db = e.db, !.schemaUpdated = e.updated,
              !.log = Append(@, "ExtendRecordSchema")]

\* if err != nil { response.Err = ...; return }
SchemaChecked(f, e) ==
    IF e.err # ""
    THEN Return(SchemaExtended(f, e), NewError("IncompatibleSchema"))
    ELSE SchemaExtended(f, e)

\* The schema step with the error of ExtendRecordSchema logged and ignored.
SaveExtendSchema_IgnoreError(f) ==
    IF f.done THEN f
    ELSE SchemaExtended(f, ExtendRecordSchema(f.db, f.p.Records, f.extFail))

\* schemaUpdated, err := recordutil.ExtendRecordSchema(...)
SaveExtendSchema(f) ==
    IF f.done THEN f
    ELSE SchemaChecked(f, ExtendRecordSchema(f.db, f.p.Records, f.extFail))

\* saveFunc(&req, &resp), whichever function SaveSelectFunc chose.
SaveCall(f) ==
    IF f.saveFunc = "atomic"
    THEN atomicModifyFunc(f.db, f.isTx, "save", f.p.Records, f.fails, f.tx)
    ELSE plainModifyFunc(f.db, "save", f.p.Records, f.fails)

\* The frame after the modify function returned r.
Modified(f, r) ==
    [f EXCEPT !.db = r.db, !.resp = r.resp, !.txErr = r.txErr, !.log = @ \o r.log]

\* if err := ...; err != nil { response.Err = err; return }
ModifyChecked(f, r) ==
    IF r.err # NoErr
    THEN Return(Modified(f, r), r.err)
    ELSE Modified(f, r)

\* The same, with the database put back to what it was when the request
\* came in, schema included, when the modify function fails.
ModifyChecked_UndoSchema(f, r) ==
    IF r.err # NoErr
    THEN Return([Modified(f, r) EXCEPT !.db = f.pre], r.err)
    ELSE Modified(f, r)

\* The save step with the schema extension undone when saveFunc fails, as if
\* the extension ran inside the transaction.
SaveInvoke_SchemaInTransaction(f) ==
    IF f.done THEN f
    ELSE ModifyChecked_UndoSchema(f, SaveCall(f))

\* The save step with the error of saveFunc dropped: the handler goes on to
\* build the results.
SaveInvoke_IgnoreError(f) ==
    IF f.done THEN f
    ELSE Modified(f, SaveCall(f))

\* if err := saveFunc(&req, &resp); err != nil { response.Err = err; return }
SaveInvoke(f) ==
    IF f.done THEN f
    ELSE ModifyChecked(f, SaveCall(f))

\* makeResultsFromIncomingItem: r is [results, idx, panicked], idx being
\* currRecordIdx (0-based).  An index past the end of SavedRecords panics.
RECURSIVE makeResultsFrom(_, _, _, _, _)
makeResultsFrom(items, i, recs, resp, r) ==
    IF i > Len(items) \/ r.panicked THEN r
    ELSE IF items[i].isErr
    THEN makeResultsFrom(items, i + 1, recs, resp,
            [r EXCEPT !.results = Append(@, newSerializedError("", "InvalidArgument"))])
    ELSE IF items[i].key \in DOMAIN resp.ErrMap
    THEN makeResultsFrom(items, i + 1, recs, resp,
            [r EXCEPT !.results =
                Append(@, newSerializedError(items[i].key, resp.ErrMap[items[i].key]))])
    ELSE IF r.idx + 1 > Len(resp.SavedRecords)
    THEN [r EXCEPT !.panicked = TRUE]
    ELSE makeResultsFrom(items, i + 1, recs, resp,
            [r EXCEPT !.idx = @ + 1,
                      !.results = Append(@,
                          [type |-> "record",
                           id |-> recs[resp.SavedRecords[r.idx + 1]].key,
                           rec |-> resp.SavedRecords[r.idx + 1],
                           err |-> ""])])

makeResultsFromIncomingItem(items, recs, resp) ==
    makeResultsFrom(items, 1, recs, resp,
        [results |-> <<>>, idx |-> 0, panicked |-> FALSE])

\* The frame after makeResultsFromIncomingItem ended as r.
ResultsMade(f, r) ==
    IF r.panicked
    THEN [f EXCEPT !.log = @ \o [k \in 1..r.idx |-> "JSONResult"],
                   !.panicked = TRUE, !.done = TRUE]
    ELSE [f EXCEPT !.log = @ \o [k \in 1..r.idx |-> "JSONResult"],
                   !.response.Result = r.results,
                   !.response.hasResult = TRUE]

\* results := ...; h.makeResultsFromIncomingItem(...); response.Result = results
SaveResults(f) ==
    IF f.done THEN f
    ELSE ResultsMade(f,
            makeResultsFromIncomingItem(f.p.IncomingItems, f.p.Records, f.resp))

\* The notification step with a failed send reported as the request's error.
SaveNotify_FailRequest(f) ==
    IF f.done THEN f
    ELSE IF f.schemaUpdated /\ f.sender
    THEN IF f.sendFail
         THEN [f EXCEPT !.log = @ \o <<"sendSchemaChangedEvent", "Warn">>,
                        !.response = [hasResult |-> FALSE, Result |-> <<>>,
                                      Err |-> NewError("UnexpectedError")],
                        !.done = TRUE]
         ELSE [f EXCEPT !.log = Append(@, "sendSchemaChangedEvent"), !.done = TRUE]
    ELSE [f EXCEPT !.done = TRUE]

\* if schemaUpdated && h.EventSender != nil { sendSchemaChangedEvent(...) }
SaveNotify(f) ==
    IF f.done THEN f
    ELSE IF f.schemaUpdated /\ f.sender
    THEN IF f.sendFail
         THEN [f EXCEPT !.log = @ \o <<"sendSchemaChangedEvent", "Warn">>,
                        !.done = TRUE]
         ELSE [f EXCEPT !.log = Append(@, "sendSchemaChangedEvent"), !.done = TRUE]
    ELSE [f EXCEPT !.done = TRUE]

\* RecordSaveHandler.Handle
RecordSaveHandle(f) ==
    SaveNotify(SaveResults(SaveInvoke(SaveExtendSchema(SaveSelectFunc(
        SaveNewResultFilter(SaveCheckReadOnly(SaveDecode(f))))))))

----------------------------------------------------------------------------
(* RecordDeleteHandler.Handle, as the sequence of its steps over a frame.   *)

\* The payload of record:delete: the `records` list, the deprecated `ids`
\* list, and whether mapstructure can decode it.
Undecodable == [decodable |-> FALSE, records |-> <<>>, ids |-> <<>>]

DeletePayloads ==
    {Undecodable} \cup
    [decodable : {TRUE}, records : Batches(RecordKeys), ids : Batches(RawIDs)]

\* The frame at entry.  atomic and payload are the request; fails and tx are
\* what the store answers.
DeleteFrame(db, isTx, ro, atomic, payload, fails, tx) ==
    [db |-> db, pre |-> db, isTx |-> isTx, ro |-> ro,
     atomic |-> atomic, payload |-> payload, fails |-> fails, tx |-> tx,
     parsedRecordIDs |-> <<>>, deleteFunc |-> "", resp |-> EmptyModifyResponse, txErr |-> "",
     response |-> EmptyResponse, log |-> <<>>, done |-> FALSE]

\* The branch of Validate for the deprecated `ids` list.
DeleteValidateDeprecated(f) ==
    IF \E i \in DOMAIN f.payload.ids : ~f.payload.ids[i].slash
    THEN Return(f, NewError("InvalidArgument"))
    ELSE [f EXCEPT !.parsedRecordIDs =
                      [i \in DOMAIN f.payload.ids |-> f.payload.ids[i].key]]

\* Validate with the two lists tried in the other order: `ids` first.
DeleteValidate_DeprecatedFirst(f) ==
    IF Len(f.payload.ids) > 0
    THEN DeleteValidateDeprecated(f)
    ELSE IF Len(f.payload.records) > 0
    THEN [f EXCEPT !.parsedRecordIDs = f.payload.records]
    ELSE Return(f, NewError("InvalidArgument"))

\* recordDeletePayload.Validate
DeleteValidate(f) ==
    IF Len(f.payload.records) > 0
    THEN [f EXCEPT !.parsedRecordIDs = f.payload.records]
    ELSE IF Len(f.payload.ids) > 0
    THEN DeleteValidateDeprecated(f)
    ELSE Return(f, NewError("InvalidArgument"))

\* recordDeletePayload.Decode
DeleteDecode(f) ==
    IF ~f.payload.decodable
    THEN Return(f, NewError("BadRequest"))
    ELSE DeleteValidate(f)

\* payload.Database.IsReadOnly()
DeleteCheckReadOnly(f) ==
    IF f.done THEN f
    ELSE IF f.ro THEN Return(f, NewError("NotSupported"))
    ELSE f

\* var deleteFunc recordModifyFunc; if p.Atomic { ... } else { ... }
DeleteSelectFunc(f) ==
    IF f.done THEN f
    ELSE [f EXCEPT !.deleteFunc = IF f.atomic THEN "atomic" ELSE "plain"]

\* deleteFunc(&req, &resp), whichever function DeleteSelectFunc chose.
DeleteCall(f) ==
    IF f.deleteFunc = "atomic"
    THEN atomicModifyFunc(f.db, f.isTx, "delete", f.parsedRecordIDs, f.fails, f.tx)
    ELSE plainModifyFunc(f.db, "delete", f.parsedRecordIDs, f.fails)

\* if err := deleteFunc(&req, &resp); err != nil { response.Err = err; return }
DeleteInvoke(f) ==
    IF f.done THEN f
    ELSE ModifyChecked(f, DeleteCall(f))

\* The result of one id in the loop over p.parsedRecordIDs.
DeleteResultOf(id, ErrMap) ==
    IF id \in DOMAIN ErrMap
    THEN newSerializedError(id, ErrMap[id])
    ELSE [type |-> "tombstone", id |-> id, rec |-> 0, err |-> ""]

\* The result loop with the ids of the error map skipped.
DeleteResults_SkipFailed(f) ==
    IF f.done THEN f
    ELSE [f EXCEPT
            !.response.Result =
                SelectSeq([i \in 1..Len(f.parsedRecordIDs) |->
                             DeleteResultOf(f.parsedRecordIDs[i], f.resp.ErrMap)],
                          LAMBDA e : e.type # "error"),
            !.response.hasResult = TRUE,
            !.done = TRUE]

\* results := ...; for _, recordID := range p.parsedRecordIDs { ... }
DeleteResults(f) ==
    IF f.done THEN f
    ELSE [f EXCEPT
            !.response.Result =
                [i \in 1..Len(f.parsedRecordIDs) |->
                    DeleteResultOf(f.parsedRecordIDs[i], f.resp.ErrMap)],
            !.response.hasResult = TRUE,
            !.done = TRUE]

\* RecordDeleteHandler.Handle
RecordDeleteHandle(f) ==
    DeleteResults(DeleteInvoke(DeleteSelectFunc(DeleteCheckReadOnly(DeleteDecode(f)))))

----------------------------------------------------------------------------
(* RecordQueryHandler.Handle, as the sequence of its steps over a frame.    *)
(* A predicate is given by the fields its leaves refer to, in the order a   *)
(* depth-first walk of the tree meets them.                                 *)

\* The frame at entry.  masterKey, fields and eager (EagerLoadPaths names
\* `ref`) are the payload, acl the table the store holds; env says which of
\* the collaborators' calls fail and which records the user may not read.
QueryFrame(db, acl, masterKey, fields, eager, env) ==
    [db |-> db, pre |-> db, storedACL |-> acl, masterKey |-> masterKey,
     fields |-> fields, eager |-> eager, unreadable |-> env.unreadable,
     eagerRecords |-> {}, parseFail |-> env.parseFail, aclFail |-> env.aclFail,
     queryFail |-> env.queryFail, scanFail |-> env.scanFail,
     filterFail |-> env.filterFail, infoFail |-> env.infoFail,
     acl |-> [fld \in QueryFields |-> TRUE], scanned |-> <<>>,
     response |-> EmptyResponse, log |-> <<>>, panicked |-> FALSE, done |-> FALSE]

\* p.Decode(payload.Data, &parser)
QueryDecode(f) ==
    IF f.parseFail THEN Return(f, NewError("InvalidArgument")) ELSE f

\* The load answered from the table the handler held before the request,
\* with no read of the store.
QueryLoadACL_Cached(f) ==
    IF f.done THEN f
    ELSE IF f.aclFail
    THEN [f EXCEPT !.log = Append(@, "GetRecordFieldAccess"),
                   !.panicked = TRUE, !.done = TRUE]
    ELSE [f EXCEPT !.log = Append(@, "GetRecordFieldAccess")]

\* fieldACL := func() skydb.FieldACL { ... panic(err) ... }()
QueryLoadACL(f) ==
    IF f.done THEN f
    ELSE IF f.aclFail
    THEN [f EXCEPT !.log = Append(@, "GetRecordFieldAccess"),
                   !.panicked = TRUE, !.done = TRUE]
    ELSE [f EXCEPT !.log = Append(@, "GetRecordFieldAccess"),
                   !.acl = f.storedACL]

\* queryAccessVisitor: the walk stops at the first field of the predicate
\* that the user may not read; its error names that field.
RECURSIVE VisitFrom(_, _, _)
VisitFrom(acl, fields, i) ==
    IF i > Len(fields) THEN NoErr
    ELSE IF ~acl[fields[i]]
    THEN [name |-> "PermissionDenied", ids |-> {}, nErrs |-> 0, inner |-> fields[i]]
    ELSE VisitFrom(acl, fields, i + 1)

\* p.Query.Accept(visitor); visitor.Error()
VisitorError(acl, fields) == VisitFrom(acl, fields, 1)

\* if err := visitor.Error(); err != nil { response.Err = err; return }
VisitChecked(f, err) ==
    IF err # NoErr
    THEN Return([f EXCEPT !.log = Append(@, "Accept")], err)
    ELSE [f EXCEPT !.log = Append(@, "Accept")]

\* The access check with the verdict of the visitor ignored.
QueryCheckAccess_IgnoreVerdict(f) ==
    IF f.done THEN f
    ELSE IF ~f.masterKey
    THEN [f EXCEPT !.log = Append(@, "Accept")]
    ELSE f

\* The access check run whether or not the request carries the master key.
QueryCheckAccess_AlwaysWalk(f) ==
    IF f.done THEN f
    ELSE VisitChecked(f, VisitorError(f.acl, f.fields))

\* if !accessControlOptions.BypassAccessControl { ... }
QueryCheckAccess(f) ==
    IF f.done THEN f
    ELSE IF ~f.masterKey
    THEN VisitChecked(f, VisitorError(f.acl, f.fields))
    ELSE f

\* results, err := db.Query(&p.Query, accessControlOptions)
QueryRun(f) ==
    IF f.done THEN f
    ELSE IF f.queryFail
    THEN Return([f EXCEPT !.log = Append(@, "Query")], NewError("UnexpectedError"))
    ELSE [f EXCEPT !.log = Append(@, "Query")]

\* The store holds a record for key k that the request may read:
\* accessControlOptions bypasses the record ACL for the master key.
Visible(db, masterKey, unreadable, k) ==
    /\ k \in RecordKeys
    /\ db.records[k] # Absent
    /\ (masterKey \/ k \notin unreadable)

\* for results.Scan() { ... }; if results.Err() != nil { ... }
QueryScan(f) ==
    IF f.done THEN f
    ELSE IF f.scanFail
    THEN Return([f EXCEPT !.log = Append(@, "Scan")], NewError("UnexpectedError"))
    ELSE [f EXCEPT !.log = Append(@, "Scan"),
                   !.scanned = SelectSeq(KeyOrder,
                       LAMBDA k : Visible(f.db, f.masterKey, f.unreadable, k))]

\* recordutil.DoQueryEager(ctx, db, recordutil.EagerIDs(db, records, query),
\* accessControlOptions): one batched fetch of the distinct targets of the
\* scanned records; a target that is missing or unreadable is not in the map.
DoQueryEager(db, masterKey, unreadable, eager, scanned) ==
    IF ~eager THEN {}
    ELSE {t \in {RefTarget[scanned[i]] : i \in DOMAIN scanned} :
            Visible(db, masterKey, unreadable, t)}

\* recordutil.MakeAssetsComplete, recordutil.DoQueryEager and
\* recordutil.NewRecordResultFilter
QueryResolve(f) ==
    IF f.done THEN f
    ELSE IF f.filterFail
    THEN Return([f EXCEPT !.log = @ \o <<"MakeAssetsComplete", "DoQueryEager",
                                          "NewRecordResultFilter">>],
                NewError("UnexpectedError"))
    ELSE [f EXCEPT !.log = @ \o <<"MakeAssetsComplete", "DoQueryEager",
                                   "NewRecordResultFilter">>,
                   !.eagerRecords = DoQueryEager(f.db, f.masterKey, f.unreadable,
                                                 f.eager, f.scanned)]

\* QueryResultFilter.JSONResult(&record): the record with its reference
\* embedded when the eager load found the target, and replaced by a redacted
\* stub when it did not.
QueryJSONResult(f, i) ==
    [type |-> "record", id |-> f.scanned[i], rec |-> i, err |-> "",
     ref |-> IF ~f.eager THEN "none"
             ELSE IF RefTarget[f.scanned[i]] \in f.eagerRecords THEN "embedded"
             ELSE "stub"]

\* The output loop with the records whose reference could not be loaded
\* left out.
QueryOutput_DropStubs(f) ==
    IF f.done THEN f
    ELSE [f EXCEPT
            !.log = @ \o [i \in 1..Len(f.scanned) |-> "JSONResult"],
            !.response.Result =
                SelectSeq([i \in 1..Len(f.scanned) |-> QueryJSONResult(f, i)],
                          LAMBDA e : e.ref # "stub"),
            !.response.hasResult = TRUE]

\* output := make([]interface{}, len(records)); ...; response.Result = output
QueryOutput(f) ==
    IF f.done THEN f
    ELSE [f EXCEPT
            !.log = @ \o [i \in 1..Len(f.scanned) |-> "JSONResult"],
            !.response.Result =
                [i \in 1..Len(f.scanned) |-> QueryJSONResult(f, i)],
            !.response.hasResult = TRUE]

\* resultInfo, err := recordutil.QueryResultInfo(...)
QueryInfo(f) ==
    IF f.done THEN f
    ELSE IF f.infoFail
    THEN Return([f EXCEPT !.log = Append(@, "QueryResultInfo")],
                NewError("UnexpectedError"))
    ELSE [f EXCEPT !.log = Append(@, "QueryResultInfo"), !.done = TRUE]

\* RecordQueryHandler.Handle
RecordQueryHandle(f) ==
    QueryInfo(QueryOutput(QueryResolve(QueryScan(QueryRun(QueryCheckAccess(
        QueryLoadACL(QueryDecode(f))))))))

----------------------------------------------------------------------------
(* RecordFetchHandler.Handle, as the sequence of its steps over a frame.    *)

\* Which calls of the fetch handler fail, and which records the user may
\* not read.
FetchEnvs == [decodeFail : BOOLEAN, filterFail : BOOLEAN, unreadable : SUBSET RecordKeys]

\* The frame at entry.  ids is the payload.
FetchFrame(db, ids, env) ==
    [db |-> db, pre |-> db, ids |-> ids, decodeFail |-> env.decodeFail,
     filterFail |-> env.filterFail, unreadable |-> env.unreadable,
     RecordIDs |-> <<>>, response |-> EmptyResponse, log |-> <<>>, done |-> FALSE]

\* recordFetchPayload.Validate: strings.SplitN(rawID, "/", 2) has one part
\* exactly when rawID holds no '/'.
FetchValidate(f) ==
    IF Len(f.ids) = 0
    THEN Return(f, NewError("InvalidArgument"))
    ELSE IF \E i \in DOMAIN f.ids : ~f.ids[i].slash
    THEN Return(f, NewError("InvalidArgument"))
    ELSE [f EXCEPT !.RecordIDs = [i \in DOMAIN f.ids |-> f.ids[i].key]]

\* recordFetchPayload.Decode
FetchDecode(f) ==
    IF f.decodeFail THEN Return(f, NewError("BadRequest")) ELSE FetchValidate(f)

\* recordutil.NewRecordResultFilter(...)
FetchNewResultFilter(f) ==
    IF f.done THEN f
    ELSE IF f.filterFail
    THEN Return([f EXCEPT !.log = Append(@, "NewRecordResultFilter")],
                NewError("UnexpectedError"))
    ELSE [f EXCEPT !.log = Append(@, "NewRecordResultFilter")]

\* fetcher.FetchRecord(recordID, payload.AuthInfo, skydb.ReadLevel): the
\* error of the fetch, "" when the record is found and readable.
FetchRecord(db, id, unreadable) ==
    IF db.records[id] = Absent THEN "ResourceNotFound"
    ELSE IF id \in unreadable THEN "PermissionDenied"
    ELSE ""

\* One iteration of the loop over p.RecordIDs: results[i].
FetchResultOf(i, id, err) ==
    IF err # ""
    THEN newSerializedError(id, err)
    ELSE [type |-> "record", id |-> id, rec |-> i, err |-> ""]

FetchResultAt(f, i) ==
    FetchResultOf(i, f.RecordIDs[i], FetchRecord(f.db, f.RecordIDs[i], f.unreadable))

\* The calls one iteration makes.
FetchCallsAt(f, i) ==
    IF FetchRecord(f.db, f.RecordIDs[i], f.unreadable) # ""
    THEN <<"FetchRecord">>
    ELSE <<"FetchRecord", "JSONResult">>

RECURSIVE FetchCallsFrom(_, _)
FetchCallsFrom(f, i) ==
    IF i > Len(f.RecordIDs) THEN <<>>
    ELSE FetchCallsAt(f, i) \o FetchCallsFrom(f, i + 1)

\* The result loop with the ids whose fetch fails skipped.
FetchResults_SkipFailed(f) ==
    IF f.done THEN f
    ELSE [f EXCEPT
            !.log = @ \o FetchCallsFrom(f, 1),
            !.response.Result =
                SelectSeq([i \in 1..Len(f.RecordIDs) |-> FetchResultAt(f, i)],
                          LAMBDA e : e.type # "error"),
            !.response.hasResult = TRUE,
            !.done = TRUE]

\* results := make([]interface{}, p.ItemLen(), p.ItemLen()); for i, recordID
\* := range p.RecordIDs { ... }; response.Result = results
FetchResults(f) ==
    IF f.done THEN f
    ELSE [f EXCEPT
            !.log = @ \o FetchCallsFrom(f, 1),
            !.response.Result =
                [i \in 1..Len(f.RecordIDs) |-> FetchResultAt(f, i)],
            !.response.hasResult = TRUE,
            !.done = TRUE]

\* RecordFetchHandler.Handle
RecordFetchHandle(f) ==
    FetchResults(FetchNewResultFilter(FetchDecode(f)))

----------------------------------------------------------------------------
(* push.RouteSender.  A value is the senders map: service -> Sender.        *)

\* NewRouteSender()
NewRouteSender == [service \in {} |-> ""]

\* Route with a service that has a sender already left as it is.
Route_KeepFirst(senders, service, sender) ==
    IF service \in DOMAIN senders THEN senders
    ELSE [x \in (DOMAIN senders) \cup {service} |-> IF x = service THEN sender ELSE senders[x]]

\* func (s RouteSender) Route(service string, sender Sender)
Route(senders, service, sender) ==
    [x \in (DOMAIN senders) \cup {service} |-> IF x = service THEN sender ELSE senders[x]]

\* func (s RouteSender) Len() int
RouteSenderLen(senders) == Cardinality(DOMAIN senders)

\* The error values of Send: nil, the error of fmt.Errorf (msg is the format
\* and type its argument), or the error the invoked sender returned.
NilError == [msg |-> "", type |-> ""]

\* func (s RouteSender) Send(m Mapper, device skydb.Device) error: invoked
\* lists the senders whose Send was called, result is what a called sender
\* returns.
Send(senders, deviceType, result) ==
    IF deviceType \notin DOMAIN senders
    THEN [type |-> deviceType, invoked |-> <<>>, result |-> result,
          ret |-> [msg |-> "cannot find sender with type = %s", type |-> deviceType]]
    ELSE [type |-> deviceType, invoked |-> <<senders[deviceType]>>, result |-> result,
          ret |-> [msg |-> result, type |-> ""]]

\* No Send has returned since the last registration.
NoSend == [type |-> "", invoked |-> <<>>, result |-> "", ret |-> NilError]

----------------------------------------------------------------------------
(* The state machine.                                                       *)

\* No request is being answered.
Idle == [kind |-> "idle"]

DB == [records |-> records, schema |-> schema]

Init ==
    /\ records = [k \in RecordKeys |-> Absent]
    /\ schema = Absent
    /\ fieldACL = [fld \in QueryFields |-> TRUE]
    /\ transactional \in BOOLEAN
    /\ readOnly \in BOOLEAN
    /\ hasEventSender \in BOOLEAN
    /\ last = Idle
    /\ push = [senders |-> NewRouteSender, routed |-> <<>>, sent |-> NoSend]

\* The handler that ran to frame f leaves the store as f.db.
StoreBecomes(f) ==
    /\ records' = f.db.records
    /\ schema' = f.db.schema

\* What is kept of a save request that ran to frame f.
SaveAnswered(f) ==
    [kind |-> "save", atomic |-> f.atomic, raws |-> f.raws, p |-> f.p,
     decodeFail |-> f.decodeFail,
     response |-> f.response, resp |-> f.resp, txErr |-> f.txErr, pre |-> f.pre,
     log |-> f.log, schemaUpdated |-> f.schemaUpdated, panicked |-> f.panicked]

\* What is kept of a delete request that ran to frame f.
DeleteAnswered(f) ==
    [kind |-> "delete", atomic |-> f.atomic, payload |-> f.payload,
     ids |-> f.parsedRecordIDs,
     response |-> f.response, resp |-> f.resp, txErr |-> f.txErr, pre |-> f.pre,
     log |-> f.log]

SaveDone(f) ==
    /\ StoreBecomes(f)
    /\ last' = SaveAnswered(f)

DeleteDone(f) ==
    /\ StoreBecomes(f)
    /\ last' = DeleteAnswered(f)

\* A record:save request is handled.
RecordSave ==
    /\ last = Idle
    /\ \E atomic \in BOOLEAN, raws \in Batches(RawMaps), decodeFail \in BOOLEAN :
       \E fails \in SUBSET (1..Len(Validate(raws).Records)),
          tx \in (IF atomic THEN TxOutcomes ELSE {"ok"}),
          extFail \in BOOLEAN, filterFail \in BOOLEAN,
          sendFail \in (IF hasEventSender THEN BOOLEAN ELSE {FALSE}) :
            SaveDone(RecordSaveHandle(
                SaveFrame(DB, transactional, readOnly, hasEventSender, atomic, raws,
                          decodeFail, fails, tx, extFail, filterFail, sendFail)))
    /\ UNCHANGED <<fieldACL, transactional, readOnly, hasEventSender, push>>

\* The number of ids a delete payload asks to delete.
DeleteLen(payload) ==
    IF Len(payload.records) > 0 THEN Len(payload.records) ELSE Len(payload.ids)

\* A record:delete request is handled.
RecordDelete ==
    /\ last = Idle
    /\ \E atomic \in BOOLEAN, payload \in DeletePayloads :
       \E fails \in SUBSET (1..DeleteLen(payload)),
          tx \in (IF atomic THEN TxOutcomes ELSE {"ok"}) :
            DeleteDone(RecordDeleteHandle(
                DeleteFrame(DB, transactional, readOnly, atomic, payload, fails, tx)))
    /\ UNCHANGED <<fieldACL, transactional, readOnly, hasEventSender, push>>

\* What is kept of a query request that ran to frame f.
QueryAnswered(f) ==
    [kind |-> "query", masterKey |-> f.masterKey, fields |-> f.fields,
     eager |-> f.eager, unreadable |-> f.unreadable, acl |-> f.acl,
     queryFail |-> f.queryFail, scanFail |-> f.scanFail, infoFail |-> f.infoFail,
     response |-> f.response, pre |-> f.pre, log |-> f.log,
     panicked |-> f.panicked]

QueryDone(f) ==
    /\ StoreBecomes(f)
    /\ last' = QueryAnswered(f)

\* Which calls of the query handler fail.
QueryEnvs ==
    [parseFail : BOOLEAN, aclFail : BOOLEAN, queryFail : BOOLEAN,
     scanFail : BOOLEAN, filterFail : BOOLEAN, infoFail : BOOLEAN,
     unreadable : SUBSET RecordKeys]

Predicates == UNION {[1..n -> QueryFields] : n \in 0..MaxPred}

\* A record:query request is handled.
RecordQuery ==
    /\ last = Idle
    /\ \E masterKey \in BOOLEAN, fields \in Predicates, eager \in BOOLEAN :
       \E env \in QueryEnvs :
            QueryDone(RecordQueryHandle(
                QueryFrame(DB, fieldACL, masterKey, fields, eager, env)))
    /\ UNCHANGED <<fieldACL, transactional, readOnly, hasEventSender, push>>

\* What is kept of a fetch request that ran to frame f.
FetchAnswered(f) ==
    [kind |-> "fetch", ids |-> f.ids, decodeFail |-> f.decodeFail,
     RecordIDs |-> f.RecordIDs,
     unreadable |-> f.unreadable, response |-> f.response, pre |-> f.pre,
     log |-> f.log]

FetchDone(f) ==
    /\ StoreBecomes(f)
    /\ last' = FetchAnswered(f)

\* A record:fetch request is handled.
RecordFetch ==
    /\ last = Idle
    /\ \E ids \in Batches(RawIDs), env \in FetchEnvs :
            FetchDone(RecordFetchHandle(FetchFrame(DB, ids, env)))
    /\ UNCHANGED <<fieldACL, transactional, readOnly, hasEventSender, push>>

\* An administrator changes the field access rules of the store.
SetFieldACL ==
    /\ last = Idle
    /\ \E fld \in QueryFields :
          fieldACL' = [fieldACL EXCEPT ![fld] = ~@]
    /\ UNCHANGED <<records, schema, transactional, readOnly, hasEventSender, last, push>>

\* The router serialises the response and discards it.
Respond ==
    /\ last # Idle
    /\ last' = Idle
    /\ UNCHANGED <<records, schema, fieldACL, transactional, readOnly, hasEventSender, push>>

Next == RecordSave \/ RecordDelete \/ RecordFetch \/ RecordQuery \/ Respond

Spec == Init /\ [][Next]_vars

\* The query handler over a store that earlier saves have filled: every
\* record the store holds conforms to the declared schema.
InitQuery ==
    /\ schema \in FieldTypes \cup {Absent}
    /\ records \in [RecordKeys -> {schema, Absent}]
    /\ fieldACL = [fld \in QueryFields |-> TRUE]
    /\ transactional = TRUE
    /\ readOnly = FALSE
    /\ hasEventSender = TRUE
    /\ last = Idle
    /\ push = [senders |-> NewRouteSender, routed |-> <<>>, sent |-> NoSend]

NextQuery == RecordQuery \/ SetFieldACL \/ Respond

SpecQuery == InitQuery /\ [][NextQuery]_vars

\* A sender is registered for a service.
PushRoute ==
    /\ Len(push.routed) < MaxRoutes
    /\ \E service \in Services, sender \in Senders :
          push' = [senders |-> Route(push.senders, service, sender),
                   routed |-> Append(push.routed, [service |-> service, sender |-> sender]),
                   sent |-> NoSend]
    /\ UNCHANGED <<records, schema, fieldACL, transactional, readOnly, hasEventSender, last>>

\* A notification is sent to a device.
PushSend ==
    /\ \E deviceType \in DeviceTypes, result \in {"", "rejected"} :
          push' = [push EXCEPT !.sent = Send(push.senders, deviceType, result)]
    /\ UNCHANGED <<records, schema, fieldACL, transactional, readOnly, hasEventSender, last>>

\* The router of push notifications on its own, next to an idle store.
InitPush ==
    /\ records = [k \in RecordKeys |-> Absent]
    /\ schema = Absent
    /\ fieldACL = [fld \in QueryFields |-> TRUE]
    /\ transactional = TRUE
    /\ readOnly = FALSE
    /\ hasEventSender = TRUE
    /\ last = Idle
    /\ push = [senders |-> NewRouteSender, routed |-> <<>>, sent |-> NoSend]

NextPush == PushRoute \/ PushSend

SpecPush == InitPush /\ [][NextPush]_vars

----------------------------------------------------------------------------
(* Properties of the save and delete handlers.                              *)

Range(s) == {s[i] : i \in DOMAIN s}

\* a occurs in log, and before every occurrence of b.
Precedes(log, a, b) ==
    \E i \in DOMAIN log :
        /\ log[i] = a
        /\ \A j \in DOMAIN log : log[j] = b => i < j

IsSave == last.kind = "save"
IsDelete == last.kind = "delete"
IsModify == IsSave \/ IsDelete

AtomicFailure == last.response.Err.name = "AtomicOperationFailure"

\* The position in p.Records of the record de-serialized from raws[i].
RecordPos(raws, i) == Cardinality({j \in 1..i : raws[j].ok})

\* Item i of the save batch was de-serialized and saved.
ItemSaved(i) ==
    /\ last.raws[i].ok
    /\ RecordPos(last.raws, i) \in Range(last.resp.SavedRecords)

\* C1: an atomic save or delete on a transactional store whose items produced
\* an error (ErrMap is not empty) or whose transaction failed returns
\* AtomicOperationFailure after a rollback, and whenever it returns
\* AtomicOperationFailure the records of the store are what they were before
\* the request and no result array is returned.
C1_AtomicFailureHasNoEffect ==
    (IsModify /\ last.atomic /\ transactional) =>
        /\ DOMAIN last.resp.ErrMap # {} =>
              /\ AtomicFailure
              /\ "Rollback" \in Range(last.log)
              /\ "Commit" \notin Range(last.log)
        /\ AtomicFailure =>
              /\ records = last.pre.records
              /\ ~last.response.hasResult

\* An atomic save was rolled back after one of its records had been written
\* inside the transaction under a key the store did not hold.
C1_Witness ==
    /\ IsSave /\ last.atomic /\ transactional
    /\ AtomicFailure
    /\ "Rollback" \in Range(last.log)
    /\ \E k \in Range(last.resp.SavedRecords) :
          last.pre.records[last.p.Records[k].key] = Absent

\* A save request that passed decoding, the read-only check and the
\* construction of the result filter.
SaveAdmitted ==
    /\ IsSave
    /\ ~last.decodeFail
    /\ Len(last.raws) > 0
    /\ ~readOnly
    /\ last.response.Err.name # "UnexpectedError"

\* C2: an atomic save or delete on a store that is not transactional fails
\* with NotSupported and changes nothing in the store, the schema included.
C2_NotSupportedAttemptsNothing ==
    /\ (SaveAdmitted /\ last.atomic /\ last.p.Clean /\ ~transactional) =>
          /\ last.response.Err.name = "NotSupported"
          /\ records = last.pre.records
          /\ schema = last.pre.schema
    /\ (IsDelete /\ last.atomic /\ ~transactional /\ ~readOnly /\ Len(last.ids) > 0) =>
          /\ last.response.Err.name = "NotSupported"
          /\ records = last.pre.records
          /\ schema = last.pre.schema

\* The batch holds a de-serializable and a malformed record.
MixedBatch ==
    /\ \E i \in DOMAIN last.raws : last.raws[i].ok
    /\ \E i \in DOMAIN last.raws : ~last.raws[i].ok

\* C3 as stated: an atomic save of a valid and a malformed record yields an
\* AtomicOperationFailure and leaves the store without either.
C3_MalformedIsAtomicFailure ==
    (SaveAdmitted /\ last.atomic /\ MixedBatch) =>
        /\ AtomicFailure
        /\ records = last.pre.records

\* C3, amended: an atomic save with a malformed record is rejected before
\* anything is attempted, with one InvalidArgument error that carries the
\* de-serialization error of each malformed record; no result is returned, no
\* store call is made beyond building the result filter, and records and
\* schema are unchanged.
C3_MalformedIsInvalidArgument ==
    (SaveAdmitted /\ last.atomic /\ MixedBatch) =>
        /\ last.response.Err.name = "InvalidArgument"
        /\ last.response.Err.nErrs = Cardinality({i \in DOMAIN last.raws : ~last.raws[i].ok})
        /\ last.response.Err.ids = {}
        /\ ~last.response.hasResult
        /\ last.log = <<"NewRecordResultFilter">>
        /\ records = last.pre.records
        /\ schema = last.pre.schema

\* An atomic save of a valid new record and a malformed one, on a
\* transactional store, was rejected.
C3_Witness ==
    /\ SaveAdmitted /\ last.atomic /\ MixedBatch /\ transactional
    /\ last.response.Err.name = "InvalidArgument"
    /\ \E i \in DOMAIN last.raws :
          /\ last.raws[i].ok
          /\ last.pre.records[last.raws[i].key] = Absent
          /\ records[last.raws[i].key] = Absent

\* C4: the schema is extended before the transaction begins, and when the
\* atomic batch that follows fails and is rolled back the extended schema
\* stays in the store while the records are as before.
C4_SchemaSurvivesRollback ==
    (IsSave /\ last.schemaUpdated) =>
        /\ Precedes(last.log, "ExtendRecordSchema", "Begin")
        /\ Precedes(last.log, "ExtendRecordSchema", "mFunc")
        /\ schema # Absent
        /\ last.pre.schema = Absent
        /\ AtomicFailure => records = last.pre.records

\* The schema was extended and the atomic batch was then rolled back.
C4_Witness ==
    /\ IsSave /\ last.schemaUpdated /\ last.atomic
    /\ AtomicFailure
    /\ "Rollback" \in Range(last.log)
    /\ schema # last.pre.schema

\* A record of the batch has an age whose type is not the declared one.
ConflictsWithDeclared ==
    /\ last.pre.schema # Absent
    /\ \E i \in DOMAIN last.raws :
          last.raws[i].ok /\ last.raws[i].age # last.pre.schema

\* C5: a save batch, atomic or not, holding a record whose value conflicts
\* with the declared type is rejected as a whole: no result, the save
\* function is never invoked, records and schema are unchanged; the error is
\* IncompatibleSchema once the request has passed decoding, the read-only
\* check and the Clean check of an atomic request.
C5_ConflictRejectsBatch ==
    (IsSave /\ ConflictsWithDeclared) =>
        /\ ~last.response.hasResult
        /\ last.response.Err # NoErr
        /\ "mFunc" \notin Range(last.log)
        /\ "Begin" \notin Range(last.log)
        /\ records = last.pre.records
        /\ schema = last.pre.schema
        /\ (SaveAdmitted /\ (last.atomic => last.p.Clean)) =>
              last.response.Err.name = "IncompatibleSchema"

\* A batch of one conflicting and one conforming record was rejected.
C5_Witness ==
    /\ SaveAdmitted /\ ConflictsWithDeclared
    /\ \E i \in DOMAIN last.raws :
          last.raws[i].ok /\ last.raws[i].age = last.pre.schema
    /\ last.response.Err.name = "IncompatibleSchema"

\* C6: whenever the schema extension of a save request changed the stored
\* schema and an event sender is configured, the schema-changed notification
\* is sent before the request completes, however the save step ends.  Stated
\* for requests whose store can run them (an atomic one on a transactional
\* store), so that the save step is really entered.
C6_SchemaChangeIsNotified ==
    (IsSave /\ schema # last.pre.schema /\ hasEventSender
            /\ (last.atomic => transactional)) =>
        "sendSchemaChangedEvent" \in Range(last.log)

\* C7: when the save step succeeded and sending the notification fails, the
\* response carries a result for every item and no error, and the saved
\* records are in the store.
C7_NotifyFailureIsNotAnError ==
    (IsSave /\ "Warn" \in Range(last.log)) =>
        /\ last.response.hasResult
        /\ last.response.Err = NoErr
        /\ Len(last.response.Result) = Len(last.raws)
        /\ \A k \in Range(last.resp.SavedRecords) :
              records[last.p.Records[k].key] = last.p.Records[k].age

\* Sending the notification failed after a record was saved.
C7_Witness ==
    /\ IsSave /\ "Warn" \in Range(last.log)
    /\ last.resp.SavedRecords # <<>>

\* C8: a delete batch of N ids that is not atomic, on a writable store, gets
\* a result array of N entries; entry i carries id i and is the error of the
\* error map for that id, or a tombstone when the map has none.
C8_DeleteResultPerId ==
    (IsDelete /\ ~last.atomic /\ ~readOnly /\ Len(last.ids) > 0) =>
        /\ last.response.hasResult
        /\ last.response.Err = NoErr
        /\ Len(last.response.Result) = Len(last.ids)
        /\ \A i \in DOMAIN last.ids :
              /\ last.response.Result[i].id = last.ids[i]
              /\ IF last.ids[i] \in DOMAIN last.resp.ErrMap
                 THEN /\ last.response.Result[i].type = "error"
                      /\ last.response.Result[i].err = last.resp.ErrMap[last.ids[i]]
                 ELSE last.response.Result[i].type = "tombstone"

\* A delete batch got an error for its first id and a tombstone for its
\* second.
C8_Witness ==
    /\ IsDelete /\ ~last.atomic /\ last.response.hasResult
    /\ Len(last.ids) >= 2
    /\ last.response.Result[1].type = "error"
    /\ last.response.Result[2].type = "tombstone"

\* C9: in a save batch that is not atomic the result array has one entry per
\* incoming item, in input order: an error for an item that failed, and for
\* an item that was saved the saved record of that same item.
C9_SaveResultPerItem ==
    (IsSave /\ ~last.atomic /\ last.response.hasResult) =>
        /\ Len(last.response.Result) = Len(last.raws)
        /\ \A i \in DOMAIN last.raws :
              IF ItemSaved(i)
              THEN /\ last.response.Result[i].type = "record"
                   /\ last.response.Result[i].rec = RecordPos(last.raws, i)
              ELSE last.response.Result[i].type = "error"

----------------------------------------------------------------------------
(* Properties of the query handler.                                         *)

IsQuery == last.kind = "query"

\* The predicate of a query without the master key refers to a field the
\* user may not read, and the request got as far as the access check.
QueryDenied ==
    /\ IsQuery /\ ~last.masterKey
    /\ \E i \in DOMAIN last.fields : ~fieldACL[last.fields[i]]
    /\ "Accept" \in Range(last.log)

\* C10 as stated: a denied query ends with PermissionDenied and issues no
\* store access at all, before or after the denial.
C10_DeniedQueryTouchesNoStore ==
    QueryDenied =>
        /\ last.response.Err.name = "PermissionDenied"
        /\ last.log = <<"Accept">>

\* C10, amended: a denied query ends with PermissionDenied naming the first
\* denied field of the walk and returns no result; the only store access of
\* the request is the load of the FieldACL table that precedes the walk:
\* Query is never called and nothing is scanned, resolved or filtered.
C10_DeniedQueryRunsNoQuery ==
    QueryDenied =>
        /\ last.response.Err.name = "PermissionDenied"
        /\ \E i \in DOMAIN last.fields :
              /\ last.response.Err.inner = last.fields[i]
              /\ ~fieldACL[last.fields[i]]
              /\ \A j \in 1..(i - 1) : fieldACL[last.fields[j]]
        /\ ~last.response.hasResult
        /\ last.log = <<"GetRecordFieldAccess", "Accept">>
        /\ "Query" \notin Range(last.log)
        /\ records = last.pre.records

\* A query on a store holding a record was denied for the second field of
\* its predicate.
C10_Witness ==
    /\ QueryDenied
    /\ Len(last.fields) = 2
    /\ fieldACL[last.fields[1]]
    /\ \E k \in RecordKeys : records[k] # Absent
    /\ last.response.Err.name = "PermissionDenied"

\* C11: a query that carries the master key skips the predicate walk: the
\* visitor is never run, the request is never answered PermissionDenied, and
\* once the FieldACL table is loaded the query reaches the store whatever
\* the table holds.
C11_MasterKeySkipsWalk ==
    (IsQuery /\ last.masterKey) =>
        /\ "Accept" \notin Range(last.log)
        /\ last.response.Err.name # "PermissionDenied"
        /\ (last.log # <<>> /\ ~last.panicked) => "Query" \in Range(last.log)

\* A query with the master key whose predicate refers to a field the table
\* denies was run against the store and answered with a result.
C11_Witness ==
    /\ IsQuery /\ last.masterKey
    /\ \E i \in DOMAIN last.fields : ~fieldACL[last.fields[i]]
    /\ "Query" \in Range(last.log)
    /\ last.response.hasResult
    /\ last.response.Err = NoErr

----------------------------------------------------------------------------
(* Properties of the fetch handler.                                         *)

IsFetch == last.kind = "fetch"

\* The id at position i of a fetch cannot be fetched: the store holds no
\* record for it, or the user may not read the record.
FetchFailsAt(i) ==
    \/ last.pre.records[last.ids[i].key] = Absent
    \/ last.ids[i].key \in last.unreadable

\* C12: a fetch of N validated ids answers N entries in input order: entry i
\* carries id i, and is an error object exactly when the fetch of id i
\* failed, whatever happened to the other ids.
C12_FetchResultPerId ==
    (IsFetch /\ last.response.hasResult) =>
        /\ Len(last.response.Result) = Len(last.ids)
        /\ \A i \in DOMAIN last.ids :
            /\ last.response.Result[i].id = last.ids[i].key
            /\ last.response.Result[i].type =
                  IF FetchFailsAt(i) THEN "error" ELSE "record"

\* A fetch of two ids, the first of which failed and the second of which
\* was found, was answered.
C12_Witness ==
    /\ IsFetch /\ last.response.hasResult
    /\ Len(last.ids) = 2
    /\ FetchFailsAt(1) /\ ~FetchFailsAt(2)
    /\ last.response.Result[1].type = "error"
    /\ last.response.Result[2].type = "record"

----------------------------------------------------------------------------
(* Properties of the query output.                                          *)

\* The keys of the records a scan of the store returns to the request, in
\* scan order.
ScanOf(db, masterKey, unreadable) ==
    SelectSeq(KeyOrder, LAMBDA k : Visible(db, masterKey, unreadable, k))

\* The reference of note/k cannot be loaded for the answered query.
RefUnavailable(k) ==
    ~Visible(last.pre, last.masterKey, last.unreadable, RefTarget[k])

\* C13: the output of a query has the length and the order of the scanned
\* records; with eager loading asked for, a record whose reference is
\* missing or unreadable is still in the output, at its position, with a
\* stub in place of the reference.
C13_QueryOutputMirrorsScan ==
    (IsQuery /\ last.response.hasResult) =>
        /\ Len(last.response.Result) =
              Len(ScanOf(last.pre, last.masterKey, last.unreadable))
        /\ \A i \in DOMAIN last.response.Result :
            /\ last.response.Result[i].type = "record"
            /\ last.response.Result[i].id =
                  ScanOf(last.pre, last.masterKey, last.unreadable)[i]
            /\ (last.eager /\ RefUnavailable(last.response.Result[i].id))
                  => last.response.Result[i].ref = "stub"

\* An eager query over two records was answered with the first carrying its
\* reference and the second, whose reference is missing, carrying a stub.
C13_Witness ==
    /\ IsQuery /\ last.response.hasResult /\ last.eager
    /\ Len(last.response.Result) = 2
    /\ last.response.Result[1].ref = "embedded"
    /\ last.response.Result[2].ref = "stub"
    /\ RefUnavailable(last.response.Result[2].id)

----------------------------------------------------------------------------
(* Properties of the push router.                                           *)

\* The positions of the registrations made for a service.
RoutedFor(service) ==
    {i \in DOMAIN push.routed : push.routed[i].service = service}

\* The sender of the latest registration for a service.
LatestSender(service) ==
    push.routed[CHOOSE i \in RoutedFor(service) : \A j \in RoutedFor(service) : j <= i].sender

\* C14: Send calls exactly the sender registered last for the type of the
\* device and returns what that sender returned; with no sender registered
\* for the type it calls none and returns the not-found error that names the
\* type; Len is the number of distinct services registered.
C14_SendRoutesToLatest ==
    /\ RouteSenderLen(push.senders) =
          Cardinality({push.routed[i].service : i \in DOMAIN push.routed})
    /\ push.sent # NoSend =>
          IF RoutedFor(push.sent.type) # {}
          THEN /\ push.sent.invoked = <<LatestSender(push.sent.type)>>
               /\ push.sent.ret = [msg |-> push.sent.result, type |-> ""]
          ELSE /\ push.sent.invoked = <<>>
               /\ push.sent.ret.msg = "cannot find sender with type = %s"
               /\ push.sent.ret.type = push.sent.type

\* A service was registered twice with different senders, another service
\* once, and a Send to a device of the first service was answered by the
\* later sender, whose error it returned.
C14_Witness ==
    /\ Cardinality(RoutedFor(push.sent.type)) = 2
    /\ \E i, j \in RoutedFor(push.sent.type) :
          i < j /\ push.routed[i].sender # push.routed[j].sender
               /\ push.sent.invoked = <<push.routed[j].sender>>
    /\ RouteSenderLen(push.senders) = 2
    /\ push.sent.ret.msg = "rejected"

----------------------------------------------------------------------------
(* Properties of the FieldACL load.                                         *)

\* The answered query loaded the FieldACL table.
ACLLoaded ==
    /\ IsQuery
    /\ "GetRecordFieldAccess" \in Range(last.log)
    /\ ~last.panicked

\* C15: every query works on the FieldACL table the store holds when the
\* request is handled: the table the handler used is the stored one, and a
\* request without the master key is denied exactly when the stored table
\* denies a field of its predicate, whatever the table was for earlier
\* requests.
C15_ACLReadPerRequest ==
    ACLLoaded =>
        /\ last.acl = fieldACL
        /\ ~last.masterKey =>
              (last.response.Err.name = "PermissionDenied"
                 <=> \E i \in DOMAIN last.fields : ~fieldACL[last.fields[i]])

\* After the table was changed to deny a field that it allowed at first, a
\* query on that field was denied by the changed table.
C15_Witness ==
    /\ ACLLoaded /\ ~last.masterKey
    /\ fieldACL # [fld \in QueryFields |-> TRUE]
    /\ last.acl = fieldACL
    /\ last.response.Err.name = "PermissionDenied"

----------------------------------------------------------------------------
(* Properties of the error of the atomic coordinator.                       *)

\* The answered save or delete ran the closure of atomicModifyFunc on a
\* transactional store.
AtomicAttempted ==
    /\ IsModify /\ last.atomic
    /\ "Begin" \in Range(last.log)

\* C16: the error of the atomic coordinator is AtomicOperationFailure with
\* one info entry per record id of ErrMap when ErrMap is not empty, whether
\* or not the transaction failed as well; AtomicOperationFailure wrapping the
\* error of the transaction when ErrMap is empty and the transaction failed;
\* and no error otherwise.
C16_AtomicErrorPrecedence ==
    AtomicAttempted =>
        last.response.Err =
            IF DOMAIN last.resp.ErrMap # {}
            THEN [name |-> "AtomicOperationFailure",
                  ids |-> DOMAIN last.resp.ErrMap, nErrs |-> 0, inner |-> ""]
            ELSE IF last.txErr # ""
            THEN [name |-> "AtomicOperationFailure",
                  ids |-> {}, nErrs |-> 0, inner |-> last.txErr]
            ELSE NoErr

\* An atomic request in which two ids failed, so that the transaction ended
\* with an error too, was answered with the two ids and no wrapped error.
C16_Witness ==
    /\ AtomicAttempted
    /\ Cardinality(DOMAIN last.resp.ErrMap) = 2
    /\ last.txErr # ""
    /\ last.response.Err.ids = DOMAIN last.resp.ErrMap
    /\ last.response.Err.inner = ""

----------------------------------------------------------------------------
(* Properties of payload decoding and validation.                           *)

\* A list of raw ids holds an id with no '/' in it.
HasNoSlash(ids) == \E i \in DOMAIN ids : ~ids[i].slash

\* The payload of the answered request cannot be decoded.
PayloadUndecodable ==
    \/ (IsSave \/ IsFetch) /\ last.decodeFail
    \/ IsDelete /\ ~last.payload.decodable

\* The payload of the answered request is decoded and fails validation.
PayloadInvalid ==
    \/ IsSave /\ ~last.decodeFail /\ Len(last.raws) = 0
    \/ IsFetch /\ ~last.decodeFail /\ (Len(last.ids) = 0 \/ HasNoSlash(last.ids))
    \/ /\ IsDelete /\ last.payload.decodable
       /\ Len(last.payload.records) = 0
       /\ (Len(last.payload.ids) = 0 \/ HasNoSlash(last.payload.ids))

\* C17: a save, fetch or delete whose payload cannot be decoded is answered
\* BadRequest, one whose list is empty or holds an id with no '/' is answered
\* InvalidArgument; either way the request has no result and no call to the
\* store or a collaborator was made.  A delete with a non-empty `records`
\* list deletes those records and is not rejected for what `ids` holds.
C17_RejectedPayloadCallsNothing ==
    /\ PayloadUndecodable => last.response.Err.name = "BadRequest"
    /\ PayloadInvalid => last.response.Err.name = "InvalidArgument"
    /\ (PayloadUndecodable \/ PayloadInvalid) =>
          /\ ~last.response.hasResult
          /\ last.log = <<>>
          /\ records = last.pre.records /\ schema = last.pre.schema
    /\ (IsDelete /\ last.payload.decodable /\ Len(last.payload.records) > 0) =>
          /\ last.ids = last.payload.records
          /\ last.response.Err.name \notin {"BadRequest", "InvalidArgument"}

\* A delete that gave no `records` and an `ids` list whose second id has no
\* '/' was rejected before any call, on a store that holds the record of
\* the first id.
C17_Witness ==
    /\ IsDelete /\ last.payload.decodable
    /\ Len(last.payload.records) = 0
    /\ Len(last.payload.ids) = 2
    /\ last.payload.ids[1].slash /\ ~last.payload.ids[2].slash
    /\ last.pre.records[last.payload.ids[1].key] # Absent
    /\ last.response.Err.name = "InvalidArgument"
    /\ last.log = <<>>
    /\ records = last.pre.records

----------------------------------------------------------------------------
(* Properties of the order of mutation and result processing.               *)

\* The calls that filter results and resolve references.
ResolveCalls == {"MakeAssetsComplete", "DoQueryEager", "JSONResult"}

\* Call a of the log comes before every call of ResolveCalls.
BeforeResolve(log, a) ==
    \E i \in DOMAIN log :
        /\ log[i] = a
        /\ \A j \in DOMAIN log : log[j] \in ResolveCalls => i < j

\* Every record of the store that the answered save changed is a record the
\* save function reported as saved.
OnlySavedWritten ==
    \A k \in RecordKeys :
        records[k] # last.pre.records[k] =>
            \E i \in DOMAIN last.resp.SavedRecords :
                /\ last.p.Records[last.resp.SavedRecords[i]].key = k
                /\ last.p.Records[last.resp.SavedRecords[i]].age = records[k]

\* C18: results are filtered and references resolved only after the
\* mutation or the query has ended well, and without a write to the store.
\* In a save, a record is passed to the result filter only after the save
\* function has returned with no error, which for an atomic save is after
\* the commit; the store differs from what it was only in records the save
\* function saved.  In a query, assets are completed, references loaded and
\* records filtered only after a scan that ended with no error; the store
\* is what it was.
C18_ResolveAfterMutation ==
    /\ (IsSave /\ "JSONResult" \in Range(last.log)) =>
          /\ BeforeResolve(last.log, "mFunc")
          /\ last.txErr = ""
          /\ last.response.Err = NoErr
          /\ last.atomic => (BeforeResolve(last.log, "Commit") /\ DOMAIN last.resp.ErrMap = {})
          /\ OnlySavedWritten
    /\ (IsQuery /\ Range(last.log) \cap ResolveCalls # {}) =>
          /\ BeforeResolve(last.log, "Query")
          /\ BeforeResolve(last.log, "Scan")
          /\ ~last.queryFail /\ ~last.scanFail
          /\ records = last.pre.records /\ schema = last.pre.schema

\* An atomic save of two records was committed, and after the commit the
\* two saved records were passed to the result filter.
C18_Witness ==
    /\ IsSave /\ last.atomic
    /\ Len(last.resp.SavedRecords) = 2
    /\ records # last.pre.records
    /\ BeforeResolve(last.log, "Commit")
    /\ Cardinality({i \in DOMAIN last.log : last.log[i] = "JSONResult"}) = 2

----------------------------------------------------------------------------
(* Properties of the response.                                              *)

\* A request has been answered.
Answered == last # Idle

\* The handler of the answered request panicked.
Panicked == (IsSave \/ IsQuery) /\ last.panicked

\* C19: every save, fetch, query and delete ends normally with exactly one
\* of response.Result and response.Err set, whichever collaborator failed.
C19_ExactlyOneOfResultAndErr ==
    Answered =>
        /\ ~Panicked
        /\ last.response.hasResult <=> (last.response.Err = NoErr)

----------------------------------------------------------------------------
(* Properties of the pairing of incoming items and saved records.           *)

\* The positions of the incoming items of the answered save whose RecordID
\* is not in ErrMap, in input order.
NotInErrMap ==
    SelectSeq([i \in DOMAIN last.p.IncomingItems |-> i],
              LAMBDA i : /\ ~last.p.IncomingItems[i].isErr
                         /\ last.p.IncomingItems[i].key \notin DOMAIN last.resp.ErrMap)

\* C20: when the results of a save are assembled the index into
\* SavedRecords stays in range, there are as many incoming RecordIDs outside
\* ErrMap as saved records, and the k-th of them is the item the k-th saved
\* record was de-serialized from.
C20_SavedRecordsPairing ==
    (IsSave /\ (last.response.hasResult \/ last.panicked)) =>
        /\ ~last.panicked
        /\ Len(NotInErrMap) = Len(last.resp.SavedRecords)
        /\ \A k \in DOMAIN NotInErrMap :
              RecordPos(last.raws, NotInErrMap[k]) = last.resp.SavedRecords[k]

----------------------------------------------------------------------------
(* Properties of the response of an atomic request.                         *)

\* The number of items the answered save or delete was asked to modify.
ItemCount == IF IsSave THEN Len(last.raws) ELSE Len(last.ids)

\* C21: an atomic save or delete is answered all or nothing: with one error
\* for the request and no result array, or with a result array of one
\* success object (saved record or tombstone) per item and no error entry.
C21_AtomicResponseAllOrNothing ==
    (IsModify /\ last.atomic) =>
        IF last.response.Err # NoErr
        THEN ~last.response.hasResult
        ELSE /\ last.response.hasResult
             /\ Len(last.response.Result) = ItemCount
             /\ \A i \in DOMAIN last.response.Result :
                   last.response.Result[i].type = (IF IsSave THEN "record" ELSE "tombstone")

\* An atomic delete of two stored records was committed and answered with
\* two tombstones.
C21_Witness ==
    /\ IsDelete /\ last.atomic
    /\ "Commit" \in Range(last.log)
    /\ last.response.Err = NoErr
    /\ Len(last.response.Result) = 2
    /\ \A i \in 1..2 : last.response.Result[i].type = "tombstone"
    /\ records # last.pre.records

----------------------------------------------------------------------------
(* Properties of requests on a read-only database.                          *)

\* The answered request is a save or a delete on a read-only database.
ModifyOnReadOnly == IsModify /\ readOnly

\* C22: a save or delete on a read-only database changes nothing and
\* attempts nothing: no schema extension, no transaction, no save, no delete
\* and no other call is made, and no result is returned; a request whose
\* payload is decoded and valid is answered NotSupported.
C22_ReadOnlyAttemptsNothing ==
    ModifyOnReadOnly =>
        /\ records = last.pre.records
        /\ schema = last.pre.schema
        /\ last.log = <<>>
        /\ ~last.response.hasResult
        /\ last.response.Err # NoErr
        /\ ~(PayloadUndecodable \/ PayloadInvalid) =>
              last.response.Err.name = "NotSupported"

\* A save of a record that would be new to the store and would extend the
\* schema was answered NotSupported on a read-only database.
C22_Witness ==
    /\ ModifyOnReadOnly /\ IsSave
    /\ \E i \in DOMAIN last.raws :
          /\ last.raws[i].ok
          /\ last.pre.records[last.raws[i].key] = Absent
    /\ last.pre.schema = Absent
    /\ last.response.Err.name = "NotSupported"
    /\ last.log = <<>>

====
